---------------------------- MODULE Spec2Model ----------------------------
(***************************************************************************)
(* Model of the NMEA 2000 -> WiFi gateway firmware (src/src/main.cpp):     *)
(* the TCP client list (AddClient, StopClient, CheckConnections,           *)
(* SendBufToClients) and the rate-limited system clock update              *)
(* (SetSystemTime, elapsed_since_last_system_time_update).                 *)
(*                                                                         *)
(* The firmware runs on one cooperative thread (reactesp), so every        *)
(* handler is one atomic action.  The peers, the listener and the passing  *)
(* of time are the environment.                                            *)
(***************************************************************************)
EXTENDS Integers, Sequences, FiniteSets, TLC

(***************************************************************************)
(* Program constants                                                       *)
(***************************************************************************)
\* const size_t MaxClients = 10; also the listen backlog of WiFiServer
MaxClients == 10
\* the control byte tested in CheckConnections: if (c == 0x03)
CtrlC == 3
\* constexpr unsigned long kTimeUpdatePeriodMs = 3600 * 1000;
kTimeUpdatePeriodMs == 3600 * 1000
\* PGN of the NMEA 2000 System Time message tested in SetSystemTime
SystemTimePGN == 126992

(***************************************************************************)
(* Bounds of the model                                                     *)
(***************************************************************************)
\* connections offered by the environment at one time (waiting + live), Spec
MaxConns == 4
\* unread bytes over all live connections, Spec
MaxRx == 2
\* connections offered at one time in SpecCapacity (must exceed MaxClients)
MaxOffered == 12
\* live connections that may be closed by their peer at one time, SpecCapacity
MaxClosed == 1
\* steps of time in SpecClock
MaxTicks == 4
\* connections offered at one time (waiting + live) in SpecSched
MaxSchedConns == 2
\* messages waiting on the bus at one time, SpecSched
MaxBus == 1
\* connections offered at one time (waiting + live) in SpecSweep
MaxSweepConns == 3

\* the bytes a peer may send: the control byte and another one ('A')
RxBytes == {CtrlC, 65}
\* the lines handed to SendBufToClients, as byte strings ("" , "$", "$G")
Lines == {<<>>, <<36>>, <<36, 71>>}
\* outcomes of incrementing the end() iterator of std::list, which is
\* undefined: "wrap" - the list is circular and the node after the sentinel
\* is the first element; "trap" - the library check aborts the program
UBOutcomes == {"wrap", "trap"}

VARIABLES
  clients,    \* std::list<WiFiClientPtr> clients: sequence of connections
  pending,    \* connections waiting in the listener (WiFiServer server)
  halted,     \* the program was aborted
  op,         \* the operation that made the last step
  accepted,   \* last CheckConnections: server.available() returned a client
  scanned,    \* last CheckConnections: the list when the scan started
  examined,   \* ... positions (in scanned) of the entries examined, in order
  stopped,    \* ... positions (in scanned) of the entries given to StopClient
  reads,      \* ... <<position, byte>> for every read()
  kept,       \* ... positions (in scanned) of the entries left in the list
  pastEnd,    \* ... the cursor was incremented while equal to end()
  sentBuf,    \* last SendBufToClients: its argument
  written,    \* last SendBufToClients: [to, data] for every println
  failed,     \* last SendBufToClients: positions whose write failed
  mark,       \* position of one followed not-connected entry (0: none)
  busQueue,   \* decoded messages the bus transport has not yet delivered
  published,  \* last message given to n2k_msg_input.set
  invoked,    \* last publish: [who, msg] for every consumer call, in order
  calls,      \* last publish: [from, buf, written] per SendBufToClients call
  elapsed,    \* elapsed_since_last_system_time_update (32 bit, ms)
  sysClock,   \* the system clock as last set by settimeofday (tv_sec)
  clockSets,  \* number of settimeofday calls
  sinceSet,   \* true time since the last settimeofday (or since start-up)
  lastGap,    \* true time between the last two settimeofday calls
  timeMsgs,   \* decodable system time messages received so far (0, 1, 2=more)
  lastMsg,    \* last message given to SetSystemTime
  didSet,     \* last SetSystemTime called settimeofday
  gapAtMsg,   \* sinceSet when the last message arrived
  ticks       \* steps of time taken

connVars == <<clients, pending, halted>>
sweepLog == <<accepted, scanned, examined, stopped, reads, kept, pastEnd>>
sendLog == <<sentBuf, written, failed>>
hubLog == <<published, invoked, calls>>
clockVars == <<elapsed, sysClock, clockSets, sinceSet, lastGap, timeMsgs>>
clockLog == <<lastMsg, didSet, gapAtMsg, ticks>>
vars == <<connVars, op, sweepLog, sendLog, clockVars, clockLog, mark, busQueue, hubLog>>

\* the value of n2k_msg_input before any message was published
NoMsg == [PGN |-> 0, ok |-> FALSE, date |-> 0, secs |-> 0]

ClearHubLog ==
  /\ published' = NoMsg
  /\ invoked' = <<>>
  /\ calls' = <<>>

(***************************************************************************)
(* The client list                                                         *)
(***************************************************************************)
\* a WiFiClient as the listener hands it over: connected, nothing to read
NewClient == [connected |-> TRUE, rx |-> <<>>]

\* void AddClient(WiFiClient &client): clients.push_back(...)
AddClient(cs, client) == Append(cs, client)

\* std::list::erase at position i
Erase(s, i) == SubSeq(s, 1, i - 1) \o SubSeq(s, i + 1, Len(s))

\* The state of one scan: cs is the list, each entry tagged with its
\* position at the start of the scan (idx); it is the cursor, a position of
\* cs, Len(cs) + 1 being end().
StartScan(cs) ==
  [cs       |-> [i \in 1..Len(cs) |->
                   [idx |-> i, connected |-> cs[i].connected, rx |-> cs[i].rx]],
   it       |-> 1,
   examined |-> <<>>,
   stopped  |-> <<>>,
   reads    |-> <<>>,
   pastEnd  |-> FALSE,
   trapped  |-> FALSE]

\* StopClient that stops the client and leaves its entry in the list
StopClientDeferred(st) ==
  [st EXCEPT !.stopped = Append(@, st.cs[st.it].idx)]

\* void StopClient(iterator &it): (*it)->stop(); it = clients.erase(it);
\* erase returns the position after the erased entry, which is the same
\* position of the shortened list
StopClient(st) ==
  [st EXCEPT !.stopped = Append(@, st.cs[st.it].idx),
             !.cs = Erase(@, st.it)]

\* the body of the loop without the connected() test
ExamineUnchecked(st) ==
  LET c == st.cs[st.it]
      seen == [st EXCEPT !.examined = Append(@, c.idx)]
  IN  IF c.rx # <<>>
        THEN LET rd == [seen EXCEPT !.cs[st.it].rx = Tail(@),
                                    !.reads = Append(@, <<c.idx, Head(c.rx)>>)]
             IN  IF Head(c.rx) = CtrlC THEN StopClient(rd) ELSE rd
        ELSE seen

\* the body of the for loop of CheckConnections.  No entry of the list is
\* ever NULL (AddClient pushes a fresh object), so the else branch that
\* erases a NULL entry is never taken.
Examine(st) ==
  LET c == st.cs[st.it]
      seen == [st EXCEPT !.examined = Append(@, c.idx)]
  IN  IF ~c.connected
        THEN StopClient(seen)
        ELSE IF c.rx # <<>>
               THEN LET rd == [seen EXCEPT !.cs[st.it].rx = Tail(@),
                                           !.reads = Append(@, <<c.idx, Head(c.rx)>>)]
                    IN  IF Head(c.rx) = CtrlC THEN StopClient(rd) ELSE rd
               ELSE seen

\* it++ of the for statement.  When StopClient erased the last entry, it is
\* already end() and the increment is undefined: ub is the outcome.
Advance(st, ub) ==
  IF st.it <= Len(st.cs)
    THEN [st EXCEPT !.it = @ + 1]
    ELSE IF ub = "wrap"
           THEN [st EXCEPT !.it = 1, !.pastEnd = TRUE]
           ELSE [st EXCEPT !.pastEnd = TRUE, !.trapped = TRUE]

\* for (auto it = clients.begin(); it != clients.end(); it++) { ... }
\* (ex is the state after the body, nx the state after it++; they are
\* bound so that each is evaluated once)
RECURSIVE Scan(_, _)
Scan(st, ub) ==
  IF st.trapped \/ st.it > Len(st.cs)
    THEN st
    ELSE CHOOSE r \in {Scan(nx, ub) :
                         nx \in {Advance(ex, ub) : ex \in {Examine(st)}}} : TRUE

\* where the entry that was at position m of the scanned list is now
NewPosition(cs, m) ==
  IF \E j \in 1..Len(cs) : cs[j].idx = m
    THEN CHOOSE j \in 1..Len(cs) : cs[j].idx = m
    ELSE 0

Untag(cs) == [i \in 1..Len(cs) |-> [connected |-> cs[i].connected, rx |-> cs[i].rx]]
Positions(cs) == [i \in 1..Len(cs) |-> cs[i].idx]

\* void CheckConnections(): accept one waiting client, then scan the list
CheckConnections ==
  /\ ~halted
  /\ op' = "check"
  /\ \E ub \in UBOutcomes :
       LET got == pending > 0
           cs0 == IF got THEN AddClient(clients, NewClient) ELSE clients
       IN  \E st \in {Scan(StartScan(cs0), ub)} :
             /\ pending' = IF got THEN pending - 1 ELSE pending
             /\ clients' = Untag(st.cs)
             /\ halted' = st.trapped
             /\ accepted' = got
             /\ scanned' = cs0
             /\ examined' = st.examined
             /\ stopped' = st.stopped
             /\ reads' = st.reads
             /\ kept' = Positions(st.cs)
             /\ pastEnd' = st.pastEnd
             /\ mark' = IF mark = 0 THEN 0 ELSE NewPosition(st.cs, mark)
  /\ sentBuf' = <<>>
  /\ written' = <<>>
  /\ failed' = {}
  /\ ClearHubLog
  /\ UNCHANGED <<clockVars, clockLog, busQueue>>

\* Print::println(buf): the bytes of buf, then "\r\n"
Println(buf) == buf \o <<13, 10>>

\* SendBufToClients without the connected() test
RECURSIVE SendFromAll(_, _, _)
SendFromAll(cs, i, buf) ==
  IF i > Len(cs)
    THEN <<>>
    ELSE <<[to |-> i, data |-> Println(buf)]>> \o SendFromAll(cs, i + 1, buf)

\* the println calls of SendBufToClients(buf), in order
RECURSIVE SendFrom(_, _, _)
SendFrom(cs, i, buf) ==
  IF i > Len(cs)
    THEN <<>>
    ELSE (IF cs[i].connected
            THEN <<[to |-> i, data |-> Println(buf)]>>
            ELSE <<>>) \o SendFrom(cs, i + 1, buf)

Connected(cs) == {i \in 1..Len(cs) : cs[i].connected}

\* SendBufToClients erasing the entries whose write failed
AfterSendPruned(cs, fails) ==
  LET keep == {i \in 1..Len(cs) : i \notin fails}
      F[i \in 0..Len(cs)] ==
        IF i = 0 THEN <<>>
        ELSE IF i \in keep THEN Append(F[i - 1], cs[i]) ELSE F[i - 1]
  IN  F[Len(cs)]

\* SendBufToClients erasing the entries that are not connected
AfterSendReaped(cs, fails) ==
  LET F[i \in 0..Len(cs)] ==
        IF i = 0 THEN <<>>
        ELSE IF cs[i].connected THEN Append(F[i - 1], cs[i]) ELSE F[i - 1]
  IN  F[Len(cs)]

\* the list after SendBufToClients: the loop erases nothing and ignores the
\* result of println; a connection whose write failed (fails) is closed by
\* its transport and reports not-connected from then on
AfterSend(cs, fails) ==
  [i \in 1..Len(cs) |->
     IF i \in fails THEN [cs[i] EXCEPT !.connected = FALSE] ELSE cs[i]]

\* the writes of one call that can fail: none, or the write to one entry
WriteFailures(cs) == {{}} \cup {{i} : i \in Connected(cs)}

\* void SendBufToClients(const char *buf)
SendBufToClients(buf) ==
  /\ ~halted
  /\ sentBuf' = buf
  /\ written' = SendFrom(clients, 1, buf)
  /\ \E fails \in WriteFailures(clients) :
       /\ failed' = fails
       /\ clients' = AfterSend(clients, fails)
  /\ op' = "send"
  /\ accepted' = FALSE
  /\ scanned' = <<>>
  /\ examined' = <<>>
  /\ stopped' = <<>>
  /\ reads' = <<>>
  /\ kept' = <<>>
  /\ pastEnd' = FALSE
  /\ ClearHubLog
  /\ UNCHANGED <<pending, halted, clockVars, clockLog, mark, busQueue>>

(***************************************************************************)
(* The environment of the client list                                      *)
(***************************************************************************)
ClearLogs ==
  /\ op' = "env"
  /\ accepted' = FALSE
  /\ scanned' = <<>>
  /\ examined' = <<>>
  /\ stopped' = <<>>
  /\ reads' = <<>>
  /\ kept' = <<>>
  /\ pastEnd' = FALSE
  /\ sentBuf' = <<>>
  /\ written' = <<>>
  /\ failed' = {}
  /\ ClearHubLog

RECURSIVE SumRx(_, _)
SumRx(cs, i) == IF i > Len(cs) THEN 0 ELSE Len(cs[i].rx) + SumRx(cs, i + 1)

NotConnected(cs) == {i \in 1..Len(cs) : ~cs[i].connected}

\* a peer connects: the listener queues it (backlog MaxClients)
Connect(limit) ==
  /\ ~halted
  /\ pending < MaxClients
  /\ pending + Len(clients) < limit
  /\ pending' = pending + 1
  /\ UNCHANGED <<clients, halted, clockVars, clockLog, mark, busQueue>>
  /\ ClearLogs

\* the peer of a live connection closes it
PeerClose(limit) ==
  /\ ~halted
  /\ Cardinality(NotConnected(clients)) < limit
  /\ \E i \in 1..Len(clients) :
       /\ clients[i].connected
       /\ clients' = [clients EXCEPT ![i].connected = FALSE]
  /\ UNCHANGED <<pending, halted, clockVars, clockLog, mark, busQueue>>
  /\ ClearLogs

\* the peer of a live connection sends one byte
PeerSend ==
  /\ ~halted
  /\ SumRx(clients, 1) < MaxRx
  /\ \E i \in 1..Len(clients), b \in RxBytes :
       /\ clients[i].connected
       /\ clients' = [clients EXCEPT ![i].rx = Append(@, b)]
  /\ UNCHANGED <<pending, halted, clockVars, clockLog, mark, busQueue>>
  /\ ClearLogs

(***************************************************************************)
(* 32 bit unsigned arithmetic (unsigned long of the ESP32), as two 16 bit  *)
(* limbs: the values exceed the integers of the model checker.             *)
(***************************************************************************)
Limb == 2 ^ 16
ToU32(n) == [hi |-> (n \div Limb) % Limb, lo |-> n % Limb]
U32Zero == [hi |-> 0, lo |-> 0]
U32Carry(a, b) == (a.hi + b.hi + ((a.lo + b.lo) \div Limb)) \div Limb
U32Add(a, b) ==
  [hi |-> (a.hi + b.hi + ((a.lo + b.lo) \div Limb)) % Limb,
   lo |-> (a.lo + b.lo) % Limb]
\* 0 - a, modulo 2^32
U32Neg(a) ==
  IF a = U32Zero THEN U32Zero
  ELSE IF a.lo = 0 THEN [hi |-> Limb - a.hi, lo |-> 0]
  ELSE [hi |-> Limb - 1 - a.hi, lo |-> Limb - a.lo]
U32Gt(a, b) == a.hi > b.hi \/ (a.hi = b.hi /\ a.lo > b.lo)
U32Ge(a, b) == a = b \/ U32Gt(a, b)

\* true (unwrapped) durations: a 32 bit value and whether 2^32 ms or more
\* have passed
LongZero == [over |-> FALSE, v |-> U32Zero]
LongAdd(t, d) == [over |-> t.over \/ U32Carry(t.v, d) > 0, v |-> U32Add(t.v, d)]
LongGt(t, n) == t.over \/ U32Gt(t.v, ToU32(n))
LongGe(t, n) == t.over \/ U32Ge(t.v, ToU32(n))

(***************************************************************************)
(* The system clock                                                        *)
(***************************************************************************)
\* the messages on the bus: PGN, and what ParseN2kSystemTime makes of the
\* payload (ok: its result; date: days since 1970; secs: seconds of the day)
Msgs ==
  { [PGN |-> SystemTimePGN, ok |-> TRUE, date |-> d, secs |-> s] :
      d \in {19000, 19001}, s \in {0, 43200} }
  \cup { [PGN |-> SystemTimePGN, ok |-> FALSE, date |-> 0, secs |-> 0],
         [PGN |-> 129025, ok |-> FALSE, date |-> 0, secs |-> 0] }

\* steps of time, in ms: 1, N - 1, N and 2^32 - N
Deltas ==
  { ToU32(1), ToU32(kTimeUpdatePeriodMs - 1), ToU32(kTimeUpdatePeriodMs),
    U32Neg(ToU32(kTimeUpdatePeriodMs)) }

\* the period taken in seconds instead of milliseconds
DueSeconds(e) == U32Gt(e, ToU32(3600))
\* the period doubled
DueTwice(e) == U32Gt(e, ToU32(2 * kTimeUpdatePeriodMs))

\* if (elapsed_since_last_system_time_update > kTimeUpdatePeriodMs)
Due(e) == U32Gt(e, ToU32(kTimeUpdatePeriodMs))

\* the path of SetSystemTime that reaches settimeofday
ClockSet(msg, e) == msg.PGN = SystemTimePGN /\ Due(e) /\ msg.ok

\* tv.tv_sec = n2k_system_date * 86400 + n2k_system_time
Timestamp(msg) == msg.date * 86400 + msg.secs

\* the counter reset whether or not the payload could be decoded
ElapsedAfterAnyParse(msg, e) ==
  IF msg.PGN = SystemTimePGN /\ U32Gt(e, ToU32(kTimeUpdatePeriodMs))
    THEN U32Zero ELSE e

\* the counter after SetSystemTime: elapsed_since_last_system_time_update = 0
\* only after settimeofday
ElapsedAfter(msg, e) == IF ClockSet(msg, e) THEN U32Zero ELSE e

\* void SetSystemTime(const tN2kMsg &n2k_msg)
SetSystemTime(msg) ==
  /\ elapsed' = ElapsedAfter(msg, elapsed)
  /\ IF ClockSet(msg, elapsed)
       THEN /\ sysClock' = Timestamp(msg)
            /\ clockSets' = clockSets + 1
            /\ lastGap' = sinceSet
            /\ sinceSet' = LongZero
       ELSE UNCHANGED <<sysClock, clockSets, lastGap, sinceSet>>
  /\ didSet' = ClockSet(msg, elapsed)

\* a message arrives from the bus and is given to SetSystemTime
Receive ==
  /\ \E msg \in Msgs :
       /\ SetSystemTime(msg)
       /\ lastMsg' = msg
       /\ timeMsgs' = IF msg.PGN = SystemTimePGN /\ msg.ok /\ timeMsgs < 2
                        THEN timeMsgs + 1 ELSE timeMsgs
  /\ gapAtMsg' = sinceSet
  /\ op' = "msg"
  /\ UNCHANGED <<connVars, sweepLog, sendLog, ticks, mark, busQueue, hubLog>>

\* time passes: millis() advances by d
Tick ==
  /\ ticks < MaxTicks
  /\ \E d \in Deltas :
       /\ elapsed' = U32Add(elapsed, d)
       /\ sinceSet' = LongAdd(sinceSet, d)
  /\ ticks' = ticks + 1
  /\ op' = "tick"
  /\ UNCHANGED <<sysClock, clockSets, lastGap, timeMsgs, lastMsg, didSet, gapAtMsg>>
  /\ UNCHANGED <<connVars, sweepLog, sendLog, mark, busQueue, hubLog>>

(***************************************************************************)
(* The message hub and the scheduler                                       *)
(***************************************************************************)
\* the messages the bus delivers: what SetSystemTime reads (PGN, ok, date,
\* secs), what N2kToSeasmart makes of the message (ret: its result, buf: the
\* text it left in the buffer) and the strings the NMEA 0183 transform emits
\* for it (n0183): a time message for which both encoders give nothing, a
\* position message with both lines, and one for which the transform emits
\* the empty string
HubMsgs ==
  { [PGN |-> SystemTimePGN, ok |-> TRUE, date |-> 19000, secs |-> 0,
     seasmart |-> [ret |-> 0, buf |-> <<>>], n0183 |-> <<>>],
    [PGN |-> 129025, ok |-> FALSE, date |-> 0, secs |-> 0,
     seasmart |-> [ret |-> 2, buf |-> <<36, 80>>], n0183 |-> << <<36, 71>> >>],
    [PGN |-> 129025, ok |-> FALSE, date |-> 0, secs |-> 0,
     seasmart |-> [ret |-> 2, buf |-> <<36, 80>>], n0183 |-> << <<>> >>] }

\* String GetSeaSmartString(const tN2kMsg &n2k_msg)
GetSeaSmartString(msg) ==
  IF msg.seasmart.ret = 0 THEN <<>> ELSE msg.seasmart.buf

\* the consumers in another order than setup() connects them
ConsumersSwapped == <<"seasmart", "n0183", "clock">>

\* the consumers of n2k_msg_input, in the order setup() connects them
Consumers == <<"clock", "seasmart", "n0183">>

\* n2k_msg_input.set(msg): every connected consumer is called once with the
\* message, in the order of connection
Notify(observers, msg) ==
  [i \in 1..Len(observers) |-> [who |-> observers[i], msg |-> msg]]

\* one SendBufToClients(buf) made by a consumer
SendCall(from, buf, cs) ==
  [from |-> from, buf |-> buf, written |-> SendFrom(cs, 1, buf)]

\* the SendBufToClients calls made by one consumer for one message
CallsOf(who, msg, cs) ==
  CASE who = "seasmart" ->
         IF Len(GetSeaSmartString(msg)) > 0
           THEN <<SendCall("seasmart", GetSeaSmartString(msg), cs)>>
           ELSE <<>>
    [] who = "n0183" ->
         [j \in 1..Len(msg.n0183) |-> SendCall("n0183", msg.n0183[j], cs)]
    [] OTHER -> <<>>

RECURSIVE AllCalls(_, _, _)
AllCalls(inv, i, cs) ==
  IF i > Len(inv) THEN <<>>
  ELSE CallsOf(inv[i].who, inv[i].msg, cs) \o AllCalls(inv, i + 1, cs)

\* the handler given to SetMsgHandler, called by ParseMessages for the next
\* message of the bus: it publishes the message on n2k_msg_input, whose
\* consumers run before it returns (the writes succeed here; a failing
\* write is part of SendBufToClients above)
HandleN2kMsg ==
  /\ ~halted
  /\ busQueue # <<>>
  /\ op' = "publish"
  /\ LET msg == Head(busQueue)
     IN  /\ published' = msg
         /\ invoked' = Notify(Consumers, msg)
         /\ calls' = AllCalls(Notify(Consumers, msg), 1, clients)
         /\ SetSystemTime(msg)
  /\ busQueue' = Tail(busQueue)
  /\ accepted' = FALSE
  /\ scanned' = <<>>
  /\ examined' = <<>>
  /\ stopped' = <<>>
  /\ reads' = <<>>
  /\ kept' = <<>>
  /\ pastEnd' = FALSE
  /\ sentBuf' = <<>>
  /\ written' = <<>>
  /\ failed' = {}
  /\ UNCHANGED <<connVars, timeMsgs, lastMsg, gapAtMsg, ticks, mark>>

\* a message arrives on the bus
BusArrive ==
  /\ Len(busQueue) < MaxBus
  /\ \E msg \in HubMsgs : busQueue' = Append(busQueue, msg)
  /\ ClearLogs
  /\ UNCHANGED <<connVars, clockVars, clockLog, mark>>

\* one entry that is not connected is followed from now on
Follow ==
  /\ mark = 0
  /\ \E i \in 1..Len(clients) :
       /\ ~clients[i].connected
       /\ mark' = i
  /\ ClearLogs
  /\ UNCHANGED <<connVars, clockVars, clockLog, busQueue>>

(***************************************************************************)
(* Specifications                                                          *)
(***************************************************************************)
Init ==
  /\ clients = <<>>
  /\ pending = 0
  /\ halted = FALSE
  /\ op = "init"
  /\ accepted = FALSE
  /\ scanned = <<>>
  /\ examined = <<>>
  /\ stopped = <<>>
  /\ reads = <<>>
  /\ kept = <<>>
  /\ pastEnd = FALSE
  /\ sentBuf = <<>>
  /\ written = <<>>
  /\ failed = {}
  /\ mark = 0
  /\ busQueue = <<>>
  /\ published = NoMsg
  /\ invoked = <<>>
  /\ calls = <<>>
  /\ elapsed = ToU32(kTimeUpdatePeriodMs)
  /\ sysClock = 0
  /\ clockSets = 0
  /\ sinceSet = LongZero
  /\ lastGap = LongZero
  /\ timeMsgs = 0
  /\ lastMsg = NoMsg
  /\ didSet = FALSE
  /\ gapAtMsg = LongZero
  /\ ticks = 0

Broadcast == \E buf \in Lines : SendBufToClients(buf)

\* the client list with a few connections and every behaviour of the peers
Next ==
  \/ Connect(MaxConns)
  \/ PeerClose(MaxConns)
  \/ PeerSend
  \/ CheckConnections
  \/ Broadcast

Spec == Init /\ [][Next]_vars

\* the client list with more connections than MaxClients, silent peers
NextCapacity ==
  \/ Connect(MaxOffered)
  \/ PeerClose(MaxClosed)
  \/ CheckConnections

SpecCapacity == Init /\ [][NextCapacity]_vars

\* the clock
NextClock ==
  \/ Tick
  \/ Receive

SpecClock == Init /\ [][NextClock]_vars

\* the two repeating reactions of the scheduler, the bus and the peers: each
\* reaction is run again and again while it can run
NextSched ==
  \/ Connect(MaxSchedConns)
  \/ PeerClose(MaxSchedConns)
  \/ PeerSend
  \/ BusArrive
  \/ CheckConnections
  \/ HandleN2kMsg

SpecSched ==
  /\ Init
  /\ [][NextSched]_vars
  /\ WF_vars(CheckConnections)
  /\ WF_vars(HandleN2kMsg)

\* the repeating CheckConnections and the peers, one not-connected entry
\* being followed
NextSweep ==
  \/ Connect(MaxSweepConns)
  \/ PeerClose(MaxSweepConns)
  \/ PeerSend
  \/ Follow
  \/ CheckConnections

SpecSweep ==
  /\ Init
  /\ [][NextSweep]_vars
  /\ WF_vars(CheckConnections)

(***************************************************************************)
(* Properties                                                              *)
(***************************************************************************)
Range(s) == {s[i] : i \in 1..Len(s)}
Count(s, x) == Cardinality({i \in 1..Len(s) : s[i] = x})
SentCtrlC(c) == CtrlC \in Range(c.rx)
Returned == op = "check" /\ ~halted

\* C1: when CheckConnections returns, the list holds exactly the entries of
\* the scanned list (the live set plus the accepted client) that are
\* connected and did not send 0x03, and no not-connected entry remains.
C1_SweepLeavesExactlyLive ==
  Returned =>
    /\ Range(kept) = {i \in 1..Len(scanned) :
                        scanned[i].connected /\ ~SentCtrlC(scanned[i])}
    /\ \A i \in 1..Len(clients) : clients[i].connected

\* C2: in one scan every entry that was in the list when the scan started
\* is examined exactly once: none is skipped, none is examined twice.
C2_ExaminedExactlyOnce ==
  Returned => \A i \in 1..Len(scanned) : Count(examined, i) = 1

\* C3: a CheckConnections that directly follows another one, with no client
\* accepted, removes no connection.
C3_SweepIdempotent ==
  [][(op = "check" /\ op' = "check" /\ ~halted /\ ~halted' /\ ~accepted')
       => stopped' = <<>>]_vars

\* C4: the list never holds more than MaxClients connections; at capacity
\* CheckConnections accepts nothing and evicts nothing to make room.
C4_AtMostMaxClients ==
  /\ Len(clients) <= MaxClients
  /\ (op = "check" /\ accepted) => Len(scanned) <= MaxClients

\* C5: every connection that has sent 0x03 is stopped and removed by the
\* next CheckConnections, whatever else it sent and whatever its state.
C5_CtrlCRemovedByNextSweep ==
  Returned =>
    \A i \in 1..Len(scanned) :
      SentCtrlC(scanned[i]) => (i \in Range(stopped) /\ i \notin Range(kept))

\* C6: SendBufToClients with a non-empty line writes that line, followed by
\* the line end, exactly once to every entry of the list that reported
\* connected when it was reached (it still does, or its write failed), and
\* nothing to an entry that is not connected.
C6_BroadcastFanOut ==
  (op = "send" /\ sentBuf # <<>>) =>
    \A i \in 1..Len(clients) :
      LET ws == SelectSeq(written, LAMBDA w : w.to = i)
      IN  IF clients[i].connected \/ i \in failed
            THEN ws = <<[to |-> i, data |-> sentBuf \o <<13, 10>>]>>
            ELSE ws = <<>>

\* two connected clients and one closed client were sent a non-empty line
C6_Witness ==
  /\ op = "send"
  /\ sentBuf # <<>>
  /\ Len(clients) = 3
  /\ Cardinality(NotConnected(clients)) = 1
  /\ Len(written) = 2

\* C7: any two settimeofday calls are at least kTimeUpdatePeriodMs apart.
C7_ClockSetsRateLimited ==
  clockSets >= 2 => LongGe(lastGap, kTimeUpdatePeriodMs)

\* the clock was set twice, and a decodable time message that came within
\* the period after the second was refused
C7_Witness ==
  /\ clockSets >= 2
  /\ op = "msg"
  /\ lastMsg.PGN = SystemTimePGN
  /\ lastMsg.ok
  /\ ~didSet
  /\ ~LongGe(gapAtMsg, kTimeUpdatePeriodMs)

\* the last step gave SetSystemTime a decodable time message, and the clock
\* had been set before
SecondTimeMsg ==
  /\ op = "msg"
  /\ lastMsg.PGN = SystemTimePGN
  /\ lastMsg.ok
  /\ clockSets - (IF didSet THEN 1 ELSE 0) >= 1

\* C8 as stated: a decodable time message that comes kTimeUpdatePeriodMs or
\* more (exactly the period included) after the one that set the clock
\* sets the clock too.
C8_AtLeastPeriodSetsAgain ==
  (SecondTimeMsg /\ LongGe(gapAtMsg, kTimeUpdatePeriodMs)) => didSet

\* C8 amended: a decodable time message that comes more than
\* kTimeUpdatePeriodMs and less than 2^32 ms after the one that set the
\* clock sets the clock too.
C8_MoreThanPeriodSetsAgain ==
  (SecondTimeMsg /\ ~gapAtMsg.over /\ LongGt(gapAtMsg, kTimeUpdatePeriodMs))
    => didSet

\* the second clock set, by a message one period and 1 ms after the first
C8_Witness ==
  /\ SecondTimeMsg
  /\ gapAtMsg = [over |-> FALSE, v |-> ToU32(kTimeUpdatePeriodMs + 1)]
  /\ didSet
  /\ clockSets = 2

\* C9: the first decodable time message after start-up sets the clock.
C9_FirstTimeMsgSetsClock ==
  (op = "msg" /\ lastMsg.PGN = SystemTimePGN /\ lastMsg.ok /\ timeMsgs = 1)
    => didSet

\* C10: a time message whose payload cannot be decoded sets no clock and
\* leaves the elapsed counter as it was.
C10_DecodeFailureChangesNothing ==
  [][(op' = "msg" /\ lastMsg'.PGN = SystemTimePGN /\ ~lastMsg'.ok)
       => (elapsed' = elapsed /\ sysClock' = sysClock
           /\ clockSets' = clockSets /\ ~didSet')]_vars

\* an undecodable time message arrived when an update was due, and the
\* update is still due
C10_Witness ==
  /\ op = "msg"
  /\ lastMsg.PGN = SystemTimePGN
  /\ ~lastMsg.ok
  /\ Due(elapsed)
  /\ ~didSet
  /\ clockSets >= 1

C14_EmptyStringNotBroadcast ==
  op = "publish" =>
    \A k \in 1..Len(calls) : calls[k].buf = <<>> => calls[k].written = <<>>

C17_DeadEventuallyRemoved ==
  (mark # 0) ~> (mark = 0 \/ halted)

\* a followed not-connected entry that a sweep has skipped and left in the
\* list, one place nearer to the front
C17_Witness ==
  /\ Returned
  /\ mark # 0
  /\ ~clients[mark].connected
  /\ kept[mark] = mark + 1
  /\ kept[mark] \notin Range(examined)

\* C12: when a write fails during a broadcast, every other entry that is
\* connected is still written the line exactly once in the same call, the
\* call removes no entry, and the entry whose write failed stays in the
\* list, not connected, for the next sweep.
C12_WriteFailureSparesOthers ==
  [][(op' = "send" /\ failed' # {}) =>
       /\ Len(clients') = Len(clients)
       /\ \A i \in 1..Len(clients) :
            /\ clients'[i].rx = clients[i].rx
            /\ (i \in failed') => ~clients'[i].connected
            /\ (clients[i].connected /\ i \notin failed') =>
                 /\ clients'[i].connected
                 /\ Cardinality({k \in 1..Len(written') : written'[k].to = i}) = 1
                 /\ \E k \in 1..Len(written') :
                      written'[k] = [to |-> i, data |-> sentBuf' \o <<13, 10>>]
    ]_vars

\* a broadcast of a non-empty line to three connected entries, the write to
\* the second of them failing
C12_Witness ==
  /\ op = "send"
  /\ sentBuf # <<>>
  /\ failed = {2}
  /\ Len(written) = 3
  /\ clients[1].connected /\ clients[3].connected

\* the entries a scan found not connected, or read the control byte from
Detected ==
  {i \in Range(examined) : ~scanned[i].connected}
    \cup {r[1] : r \in {q \in Range(reads) : q[2] = CtrlC}}

\* C15: every entry that a sweep finds not connected, or reads 0x03 from, is
\* stopped and erased in that same sweep: the stopped entries are exactly
\* the detected ones and none of them is in the list afterwards.
C15_DetectedStoppedAndErased ==
  op = "check" =>
    /\ Range(stopped) = Detected
    /\ Range(stopped) \cap Range(kept) = {}
    /\ Len(clients) = Len(scanned) - Len(stopped)

\* a sweep that has returned after stopping one entry that was not
\* connected and another one that sent the control byte
C15_Witness ==
  /\ Returned
  /\ \E i \in Range(stopped) : ~scanned[i].connected
  /\ \E r \in Range(reads) : r[2] = CtrlC /\ r[1] \in Range(stopped)

\* C16: the cursor of the scan is never incremented when it is at end().
C16_NeverAdvancedPastEnd ==
  ~pastEnd

C19_BroadcastKeepsLiveSet ==
  [][/\ (op' = "send") =>
          /\ Len(clients') = Len(clients)
          /\ \A i \in 1..Len(clients) : clients'[i].rx = clients[i].rx
     /\ (Len(clients') # Len(clients)) => (op' = "check")
    ]_vars

\* a broadcast over a list that holds a not-connected entry with unread
\* bytes between two connected ones
C19_Witness ==
  /\ op = "send"
  /\ Len(clients) = 3
  /\ Len(written) = 2
  /\ failed = {}
  /\ ~clients[2].connected /\ clients[2].rx # <<>>

=============================================================================
